---- MODULE Spec2Model ----
(***************************************************************************)
(* Online metronome: the Web Audio lookahead scheduler (class Metronome)   *)
(* and the mobile resilience handlers (initMobile).                        *)
(*                                                                         *)
(* Time is exact: one second is TicksPerSecond ticks, so that every        *)
(* subdivision interval (60 / bpm) / subdivision of the tempi and          *)
(* subdivisions explored here is a whole number of ticks.  Floating-point  *)
(* rounding of the JavaScript doubles is not modelled.                     *)
(* Tempo and subdivision inputs are given in tenths (605 is 60.5), volume  *)
(* in units of 1 / VolumeScale.                                            *)
(***************************************************************************)
EXTENDS Integers, Sequences, FiniteSets, TLC

VARIABLES
    _bpm,              \* Metronome fields
    _beatsPerMeasure,
    _volume,
    _subdivision,
    _audioCtx,         \* FALSE: null, TRUE: the AudioContext exists
    _intervalId,
    _nextBeatTime,
    _currentBeat,
    _currentSubdiv,
    onBeat,            \* FALSE: null, TRUE: initUI's flashBeat
    state,             \* AudioContext.state
    currentTime,       \* AudioContext.currentTime
    baseLatency,       \* AudioContext.baseLatency (0: not reported)
    _mobileHooked,     \* ctx._mobileHooked
    resumeCalled,      \* observation: the latest transition called ctx.resume()
    timers,            \* the host's active setInterval timers
    pending,           \* the host's pending onBeat timeouts, in the order they
                       \* were set (kept only while onBeat is not null: with
                       \* onBeat null their callback does nothing)
    notified,          \* observation: the onBeat calls of the latest transition
    visibilityState,   \* document.visibilityState
    wakeLockInNavigator, \* 'wakeLock' in navigator
    wakeLock,          \* initMobile's wakeLock (FALSE: null, TRUE: a sentinel)
    wakeRequests,      \* navigator.wakeLock.request() promises not yet settled
    silentAudio,       \* initMobile's silent <audio>: the latest of play() and pause()
    out,               \* observation: the clicks the latest transition scheduled
    emitted,           \* observation: events emitted since the latest start()
    anchor,            \* observation: _nextBeatTime as anchored by the latest start()
    clean,             \* observation: no setter call and no re-anchor since start()
    lastTime,          \* observation: the timestamp of the latest event emitted
                       \* since the latest start() or re-anchor (None: no event)
    interrupted        \* observation: the clock was interrupted while Running

vars == << _bpm, _beatsPerMeasure, _volume, _subdivision, _audioCtx, _intervalId,
           _nextBeatTime, _currentBeat, _currentSubdiv, state, currentTime,
           baseLatency, _mobileHooked, resumeCalled, timers, visibilityState,
           onBeat, pending, notified,
           wakeLockInNavigator, wakeLock, wakeRequests, silentAudio, out, emitted, anchor, clean,
           lastTime, interrupted >>

\* No value: no anchor, no event, no timeout.
None == 0 - 1

\* The whole state as one record: the operations below are functions on it.
World ==
    [ _bpm |-> _bpm, _beatsPerMeasure |-> _beatsPerMeasure, _volume |-> _volume,
      _subdivision |-> _subdivision, _audioCtx |-> _audioCtx,
      _intervalId |-> _intervalId, _nextBeatTime |-> _nextBeatTime,
      _currentBeat |-> _currentBeat, _currentSubdiv |-> _currentSubdiv,
      state |-> state, currentTime |-> currentTime, baseLatency |-> baseLatency,
      _mobileHooked |-> _mobileHooked, resumeCalled |-> resumeCalled,
      timers |-> timers, visibilityState |-> visibilityState,
      onBeat |-> onBeat, pending |-> pending, notified |-> notified,
      wakeLockInNavigator |-> wakeLockInNavigator,
      wakeLock |-> wakeLock, wakeRequests |-> wakeRequests,
      silentAudio |-> silentAudio,
      out |-> out, emitted |-> emitted, anchor |-> anchor,
      clean |-> clean, lastTime |-> lastTime, interrupted |-> interrupted ]

\* The state an operation starts from: nothing scheduled by it yet.
Cur == [World EXCEPT !.out = <<>>, !.resumeCalled = FALSE, !.notified = <<>>]

\* The transition to the state w.
Step(w) ==
    /\ _bpm' = w._bpm
    /\ _beatsPerMeasure' = w._beatsPerMeasure
    /\ _volume' = w._volume
    /\ _subdivision' = w._subdivision
    /\ _audioCtx' = w._audioCtx
    /\ _intervalId' = w._intervalId
    /\ _nextBeatTime' = w._nextBeatTime
    /\ _currentBeat' = w._currentBeat
    /\ _currentSubdiv' = w._currentSubdiv
    /\ state' = w.state
    /\ currentTime' = w.currentTime
    /\ baseLatency' = w.baseLatency
    /\ _mobileHooked' = w._mobileHooked
    /\ resumeCalled' = w.resumeCalled
    /\ timers' = w.timers
    /\ onBeat' = w.onBeat
    /\ pending' = w.pending
    /\ notified' = w.notified
    /\ visibilityState' = w.visibilityState
    /\ wakeLockInNavigator' = w.wakeLockInNavigator
    /\ wakeLock' = w.wakeLock
    /\ wakeRequests' = w.wakeRequests
    /\ silentAudio' = w.silentAudio
    /\ out' = w.out
    /\ emitted' = w.emitted
    /\ anchor' = w.anchor
    /\ clean' = w.clean
    /\ lastTime' = w.lastTime
    /\ interrupted' = w.interrupted

----------------------------------------------------------------------------
\* Units and the program's constants

TicksPerSecond == 6000
VolumeScale == 10000

SCHEDULE_AHEAD_TIME == TicksPerSecond \div 10        \* 0.1 s
LOOKAHEAD_INTERVAL == TicksPerSecond \div 40         \* 25 ms
FREQ_ACCENT == 1500
FREQ_NORMAL == 1000
FREQ_SUBDIV == 600
CLICK_DURATION == (3 * TicksPerSecond) \div 100      \* 0.03 s
DefaultMargin == TicksPerSecond \div 100             \* the 0.01 of (baseLatency || 0.01)
MinGain == 1                                         \* 0.0001
null == 0
NaN == -1000000

Min(a, b) == IF a < b THEN a ELSE b
Max(a, b) == IF a > b THEN a ELSE b

\* Math.round of v tenths: the nearest integer, a half rounding up.
MathRound(v) == (v + 5) \div 10
\* Math.floor of v tenths.
MathFloor(v) == v \div 10
\* a % b of JavaScript on integers: the sign of the dividend, NaN for b = 0.
JsMod(a, b) ==
    IF a = NaN \/ b = NaN \/ b = 0 THEN NaN
    ELSE LET m == IF b < 0 THEN -b ELSE b
         IN IF a >= 0 THEN a % m ELSE -((-a) % m)
JsAdd(a, b) == IF a = NaN \/ b = NaN THEN NaN ELSE a + b

----------------------------------------------------------------------------
\* Bounds and inputs of the exploration

\* The clock is read at multiples of Quantum (75 ms, less than the lookahead
\* window), up to Horizon of them.
Horizon == 6
Quantum == 3 * LOOKAHEAD_INTERVAL
MaxTime == Horizon * Quantum
\* The clock time that passes in one step; a late tick is several steps away.
ClockSteps == {Quantum}
\* The state a new AudioContext may start in.
CtxStartStates == {"suspended", "running"}
BaseLatencies == {0, SCHEDULE_AHEAD_TIME}
\* The setter calls of Spec and MobileSpec: tempo 300.5, meter 0 and 2,
\* subdivision 4.9, volume 0.8.
TempoInputs == {3005}
MeterInputs == {0, 2}
SubdivisionInputs == {49}
VolumeInputs == {(8 * VolumeScale) \div 10}
\* The setter calls of SetterSpec: out of range, negative, fractional.  The tempi
\* and subdivisions they store keep the interval a whole number of ticks.
TempoRange == {-1000, -5, 0, 194, 195, 204, 244, 245, 1195, 1204, 2995, 3004, 3005, 100000}
MeterRange == {-3, 0, 1, 3}
SubdivisionRange == {-25, 0, 5, 9, 10, 19, 25, 39, 49}
VolumeRange == {-5000, 0, 5000, VolumeScale, 15000}
\* Wake lock requests that may be unsettled at once.
MaxWakeRequests == 1
\* A pass runs only with fewer than MaxPending onBeat timeouts pending.
MaxPending == 2

----------------------------------------------------------------------------
\* class Metronome

isRunning(w) == w._intervalId # null

\* Observation: a setter call or a re-anchor ends the undisturbed run, whose
\* event count and anchor are no longer kept.
dirty(w) == [w EXCEPT !.clean = FALSE, !.emitted = 0, !.anchor = None]

setBpm_ResetsCursor(w, value) ==
    dirty([w EXCEPT !._bpm = Min(300, Max(20, MathRound(value))),
                    !._currentBeat = 0, !._currentSubdiv = 0])

setBpm_Truncates(w, value) ==
    dirty([w EXCEPT !._bpm = Min(300, Max(20, MathFloor(value)))])

setBpm(w, value) ==
    dirty([w EXCEPT !._bpm = Min(300, Max(20, MathRound(value)))])

setBeatsPerMeasure_KeepsBeat(w, value) ==
    dirty([w EXCEPT !._beatsPerMeasure = value])

setBeatsPerMeasure_ResetsCursor(w, value) ==
    dirty([w EXCEPT !._beatsPerMeasure = value, !._currentBeat = 0,
                    !._currentSubdiv = 0])

setBeatsPerMeasure(w, value) ==
    dirty([w EXCEPT !._beatsPerMeasure = value, !._currentBeat = 0])

setVolume(w, value) ==
    dirty([w EXCEPT !._volume = Min(VolumeScale, Max(0, value))])

setSubdivision_Rounds(w, value) ==
    dirty([w EXCEPT !._subdivision = Max(1, MathRound(value)), !._currentSubdiv = 0])

setSubdivision(w, value) ==
    dirty([w EXCEPT !._subdivision = Max(1, MathFloor(value)), !._currentSubdiv = 0])

\* new AudioContext(): the host decides the state it starts in.
_ensureAudioContext(w, s0) ==
    IF ~w._audioCtx
    THEN [w EXCEPT !._audioCtx = TRUE, !.state = s0, !.currentTime = 0]
    ELSE w

\* ctx.resume(): a request the host settles later, if at all.
resume(w) == [w EXCEPT !.resumeCalled = TRUE]

\* ctx.baseLatency || 0.01
Margin(w) == IF w.baseLatency = 0 THEN DefaultMargin ELSE w.baseLatency

\* (60 / this._bpm) / this._subdivision, in ticks
Interval(w) == (60 * TicksPerSecond) \div (w._bpm * w._subdivision)

_advanceBeat_BeatEveryClick(w) ==
    [w EXCEPT !._nextBeatTime = @ + Interval(w),
              !._currentSubdiv = JsMod(w._currentSubdiv + 1, w._subdivision),
              !._currentBeat = JsMod(JsAdd(@, 1), w._beatsPerMeasure)]

_advanceBeat_IgnoresSubdivision(w) ==
    LET sub == JsMod(w._currentSubdiv + 1, w._subdivision)
    IN [w EXCEPT !._nextBeatTime = @ + (60 * TicksPerSecond) \div w._bpm,
                 !._currentSubdiv = sub,
                 !._currentBeat = IF sub = 0
                                  THEN JsMod(JsAdd(@, 1), w._beatsPerMeasure)
                                  ELSE @]

_advanceBeat_KeepsBeat(w) ==
    [w EXCEPT !._nextBeatTime = @ + Interval(w),
              !._currentSubdiv = JsMod(w._currentSubdiv + 1, w._subdivision)]

_advanceBeat(w) ==
    LET sub == JsMod(w._currentSubdiv + 1, w._subdivision)
    IN [w EXCEPT !._nextBeatTime = @ + Interval(w),
                 !._currentSubdiv = sub,
                 !._currentBeat = IF sub = 0
                                  THEN JsMod(JsAdd(@, 1), w._beatsPerMeasure)
                                  ELSE @]

_scheduleClick_AccentsEveryBeat(w, beat, subdiv, time) ==
    LET isAccent == subdiv = 0
        isBeat == subdiv = 0
        freq == IF isAccent THEN FREQ_ACCENT
                ELSE IF isBeat THEN FREQ_NORMAL ELSE FREQ_SUBDIV
        subdivVolume == IF isBeat THEN w._volume ELSE (w._volume * 45) \div 100
    IN [ beat |-> beat, subdiv |-> subdiv, time |-> time, freq |-> freq,
         vol |-> Max(subdivVolume, MinGain), stop |-> time + CLICK_DURATION,
         at |-> w.currentTime,
         delay |-> IF subdiv = 0 THEN Max(0, time - w.currentTime) ELSE None,
         onBeat |-> IF subdiv = 0 THEN beat ELSE None ]

_scheduleClick_NotifiesEveryClick(w, beat, subdiv, time) ==
    LET isAccent == beat = 0 /\ subdiv = 0
        isBeat == subdiv = 0
        freq == IF isAccent THEN FREQ_ACCENT
                ELSE IF isBeat THEN FREQ_NORMAL ELSE FREQ_SUBDIV
        subdivVolume == IF isBeat THEN w._volume ELSE (w._volume * 45) \div 100
    IN [ beat |-> beat, subdiv |-> subdiv, time |-> time, freq |-> freq,
         vol |-> Max(subdivVolume, MinGain), stop |-> time + CLICK_DURATION,
         at |-> w.currentTime,
         delay |-> Max(0, time - w.currentTime),
         onBeat |-> beat ]

\* The click one call schedules: the oscillator's frequency, the gain's start
\* value, the start time, and the onBeat timeout: its delay and the beat index
\* its callback passes to onBeat (None: no timeout).
_scheduleClick(w, beat, subdiv, time) ==
    LET isAccent == beat = 0 /\ subdiv = 0
        isBeat == subdiv = 0
        freq == IF isAccent THEN FREQ_ACCENT
                ELSE IF isBeat THEN FREQ_NORMAL ELSE FREQ_SUBDIV
        subdivVolume == IF isBeat THEN w._volume ELSE (w._volume * 45) \div 100
    IN [ beat |-> beat, subdiv |-> subdiv, time |-> time, freq |-> freq,
         vol |-> Max(subdivVolume, MinGain), stop |-> time + CLICK_DURATION,
         at |-> w.currentTime,
         delay |-> IF subdiv = 0 THEN Max(0, time - w.currentTime) ELSE None,
         onBeat |-> IF subdiv = 0 THEN beat ELSE None ]

RECURSIVE scheduleLoop_AdvancesFirst(_, _, _)
scheduleLoop_AdvancesFirst(w, scheduleUntil, ev) ==
    IF w._nextBeatTime < scheduleUntil
    THEN LET w1 == _advanceBeat(w)
         IN scheduleLoop_AdvancesFirst(w1, scheduleUntil,
                Append(ev, _scheduleClick(w1, w1._currentBeat, w1._currentSubdiv,
                                          w1._nextBeatTime)))
    ELSE [w |-> w, ev |-> ev]

RECURSIVE scheduleLoop(_, _, _)
scheduleLoop(w, scheduleUntil, ev) ==
    IF w._nextBeatTime < scheduleUntil
    THEN scheduleLoop(_advanceBeat(w), scheduleUntil,
                      Append(ev, _scheduleClick(w, w._currentBeat, w._currentSubdiv,
                                                w._nextBeatTime)))
    ELSE [w |-> w, ev |-> ev]

\* The onBeat timeouts the clicks ev set: due when the clock reads at + delay;
\* run: set in the run that is the latest.
timeouts(ev) ==
    LET b == SelectSeq(ev, LAMBDA e : e.subdiv = 0)
    IN [i \in 1..Len(b) |->
           [beat |-> b[i].onBeat, due |-> b[i].at + b[i].delay, run |-> TRUE]]

\* What a pass adds to the pending timeouts and to the observations.
observePass(w0, w, ev) ==
    [w EXCEPT !.out = w0.out \o ev,
              !.pending = IF w.onBeat THEN @ \o timeouts(ev) ELSE @,
              !.emitted = IF w0.clean THEN @ + Len(ev) ELSE @,
              !.lastTime = IF ev = <<>> THEN @ ELSE ev[Len(ev)].time]

_schedule(w) ==
    LET r == scheduleLoop(w, w.currentTime + SCHEDULE_AHEAD_TIME, <<>>)
    IN observePass(w, r.w, r.ev)

\* The pending timeout the host runs next: the one due first, of those due
\* together the one set first.
nextTimeout(w) ==
    CHOOSE i \in 1..Len(w.pending) :
        \A j \in 1..Len(w.pending) :
            \/ w.pending[i].due < w.pending[j].due
            \/ w.pending[i].due = w.pending[j].due /\ i <= j

\* The callback of the pending timeout i: if (this.onBeat) this.onBeat(beat).
\* Observed: the beat passed, and whether a timeout set earlier in the same run
\* is still pending.
onBeatTimeout(w, i) ==
    LET t == w.pending[i]
    IN [w EXCEPT !.pending = SubSeq(@, 1, i - 1) \o SubSeq(@, i + 1, Len(@)),
                 !.notified =
                     IF ~w.onBeat THEN @
                     ELSE Append(@, [beat |-> t.beat,
                                     overtook |-> t.run /\ \E j \in 1..(i - 1) :
                                                                w.pending[j].run])]

\* setInterval: an id no active timer has.
setInterval(w) == CHOOSE id \in 1..(Cardinality(w.timers) + 1) : id \notin w.timers

\* start() past its isRunning guard.
startBody(w, s0) ==
    LET w1 == _ensureAudioContext(w, s0)
        w2 == IF w1.state = "suspended" THEN resume(w1) ELSE w1
        w3 == [w2 EXCEPT !._currentBeat = 0, !._currentSubdiv = 0,
                         !._nextBeatTime = w2.currentTime + Margin(w2),
                         !.emitted = 0, !.clean = TRUE,
                         !.anchor = w2.currentTime + Margin(w2),
                         !.lastTime = None,
                         !.pending = [i \in 1..Len(@) |-> [@[i] EXCEPT !.run = FALSE]],
                         !.interrupted = FALSE]
        w4 == _schedule(w3)
        id == setInterval(w4)
    IN [w4 EXCEPT !._intervalId = id, !.timers = @ \cup {id}]

start_Unguarded(w, s0) == startBody(w, s0)

start_NoFirstPass(w, s0) ==
    IF isRunning(w) THEN w
    ELSE LET w1 == _ensureAudioContext(w, s0)
             w2 == IF w1.state = "suspended" THEN resume(w1) ELSE w1
             w3 == [w2 EXCEPT !._currentBeat = 0, !._currentSubdiv = 0,
                              !._nextBeatTime = w2.currentTime + Margin(w2),
                              !.emitted = 0, !.clean = TRUE,
                              !.anchor = w2.currentTime + Margin(w2),
                              !.lastTime = None,
                              !.pending = [i \in 1..Len(@) |-> [@[i] EXCEPT !.run = FALSE]],
                              !.interrupted = FALSE]
             id == setInterval(w3)
         IN [w3 EXCEPT !._intervalId = id, !.timers = @ \cup {id}]

start(w, s0) == IF isRunning(w) THEN w ELSE startBody(w, s0)

stop_LeavesTimer(w) ==
    IF ~isRunning(w) THEN w
    ELSE [w EXCEPT !._intervalId = null]

stop(w) ==
    IF ~isRunning(w) THEN w
    ELSE [w EXCEPT !.timers = @ \ {w._intervalId}, !._intervalId = null]

----------------------------------------------------------------------------
\* initMobile

\* requestWakeLock up to its await: the request is made, the host settles it.
requestWakeLock(w) ==
    IF ~w.wakeLockInNavigator THEN w
    ELSE [w EXCEPT !.wakeRequests = @ + 1]

\* requestWakeLock past its await, the request granted.
wakeLockGranted(w) == [w EXCEPT !.wakeRequests = @ - 1, !.wakeLock = TRUE]

\* requestWakeLock past its await, the request rejected.
wakeLockRejected(w) == [w EXCEPT !.wakeRequests = @ - 1]

\* The 'release' listener of a sentinel.
wakeLockReleased(w) == [w EXCEPT !.wakeLock = FALSE]

releaseWakeLock(w) == IF w.wakeLock THEN [w EXCEPT !.wakeLock = FALSE] ELSE w

\* metronome._nextBeatTime = ctx.currentTime + (ctx.baseLatency || 0.01)
reanchor(w) ==
    dirty([w EXCEPT !._nextBeatTime = w.currentTime + Margin(w),
                    !.lastTime = None])

recoverPlayback_RestartsPolling(w) ==
    IF ~w._audioCtx THEN w
    ELSE LET w1 == IF w.state \in {"suspended", "interrupted"} THEN resume(w) ELSE w
             id == setInterval(w1)
         IN IF isRunning(w1)
            THEN [reanchor(w1) EXCEPT !._intervalId = id, !.timers = @ \cup {id}]
            ELSE w1

recoverPlayback_SuspendedOnly(w) ==
    IF ~w._audioCtx THEN w
    ELSE LET w1 == IF w.state = "suspended" THEN resume(w) ELSE w
         IN IF isRunning(w1) THEN reanchor(w1) ELSE w1

recoverPlayback(w) ==
    IF ~w._audioCtx THEN w
    ELSE LET w1 == IF w.state \in {"suspended", "interrupted"} THEN resume(w) ELSE w
         IN IF isRunning(w1) THEN reanchor(w1) ELSE w1

\* hookAudioContextRecovery is called by metronome.onStart alone, and nothing in
\* Metronome.start calls onStart: no transition below sets _mobileHooked.
hookAudioContextRecovery(w) ==
    IF ~w._audioCtx \/ w._mobileHooked THEN w
    ELSE [w EXCEPT !._mobileHooked = TRUE]

\* The 'statechange' listener, when hookAudioContextRecovery has added it.
statechange(w) ==
    IF w._mobileHooked /\ w.state = "running" /\ isRunning(w)
    THEN reanchor(w) ELSE w

\* metronome.onStart and metronome.onStop as initMobile assigns them.  Nothing in
\* Metronome calls either.
onStart(w) ==
    LET w1 == hookAudioContextRecovery(w)
        w2 == [w1 EXCEPT !.silentAudio = "playing"]
    IN requestWakeLock(w2)

onStop(w) == releaseWakeLock([w EXCEPT !.silentAudio = "paused"])

visibilitychange_NoWakeLock(w, v) ==
    LET w1 == [w EXCEPT !.visibilityState = v]
    IN IF v = "visible" /\ isRunning(w1) THEN recoverPlayback(w1) ELSE w1

visibilitychange_StopsWhenHidden(w, v) ==
    LET w1 == [w EXCEPT !.visibilityState = v]
    IN IF v = "visible" /\ isRunning(w1)
       THEN requestWakeLock(recoverPlayback(w1))
       ELSE stop(w1)

\* The 'visibilitychange' listener, the page having become v.
visibilitychange(w, v) ==
    LET w1 == [w EXCEPT !.visibilityState = v]
    IN IF v = "visible" /\ isRunning(w1)
       THEN requestWakeLock(recoverPlayback(w1))
       ELSE w1

----------------------------------------------------------------------------
\* The host: the audio clock's lifecycle

\* The host suspends or interrupts the running clock.
ctxInterrupt(w, s) ==
    statechange([w EXCEPT !.state = s,
                          !.interrupted = @ \/ isRunning(w)])

\* The clock runs again: a resume() settles, or the host ends the interruption.
ctxRunning(w) ==
    statechange([w EXCEPT !.state = "running", !.interrupted = FALSE])

----------------------------------------------------------------------------
\* The state machine

\* The state after new Metronome(), initUI and initMobile.
Constructed ==
    /\ _bpm = 120
    /\ _beatsPerMeasure = 4
    /\ _volume = (8 * VolumeScale) \div 10
    /\ _subdivision = 1
    /\ _audioCtx = FALSE
    /\ _intervalId = null
    /\ _nextBeatTime = 0
    /\ _currentBeat = 0
    /\ _currentSubdiv = 0
    /\ state = "none"
    /\ currentTime = 0
    /\ baseLatency \in BaseLatencies
    /\ _mobileHooked = FALSE
    /\ resumeCalled = FALSE
    /\ timers = {}
    /\ pending = <<>>
    /\ notified = <<>>
    /\ visibilityState = "visible"
    /\ wakeLock = FALSE
    /\ wakeRequests = 0
    /\ silentAudio = "paused"
    /\ out = <<>>
    /\ emitted = 0
    /\ anchor = None
    /\ clean = FALSE
    /\ lastTime = None
    /\ interrupted = FALSE

\* A browser without the Wake Lock API; the onBeat callback is not followed
\* (onBeat null).
Init ==
    /\ Constructed
    /\ wakeLockInNavigator = FALSE
    /\ onBeat = FALSE

\* A browser with the Wake Lock API.
MobileInit ==
    /\ Constructed
    /\ wakeLockInNavigator = TRUE
    /\ onBeat = FALSE

\* The page with its beat display: initUI has assigned metronome.onBeat.
BeatInit ==
    /\ Constructed
    /\ wakeLockInNavigator = FALSE
    /\ onBeat = TRUE

Start ==
    \E s0 \in CtxStartStates :
        /\ Len(pending) < MaxPending
        /\ Step(start(Cur, s0))
Stop ==
    /\ Step(stop(Cur))
SetTempo ==
    \E v \in TempoInputs :
        /\ Step(setBpm(Cur, v))
SetMeter ==
    \E v \in MeterInputs :
        /\ Step(setBeatsPerMeasure(Cur, v))
SetSubdivision ==
    \E v \in SubdivisionInputs :
        /\ Step(setSubdivision(Cur, v))
SetVolume ==
    \E v \in VolumeInputs :
        /\ Step(setVolume(Cur, v))
\* A polling timer fires (as late as the host likes).
Tick ==
    \E id \in timers :
        /\ Len(pending) < MaxPending
        /\ Step(_schedule(Cur))
VisibilityChange ==
    \E v \in {"visible", "hidden"} :
        /\ v # visibilityState
        /\ wakeRequests < MaxWakeRequests
        /\ Step(visibilitychange(Cur, v))
ClockAdvance ==
    \E d \in ClockSteps :
        /\ _audioCtx /\ state = "running"
        /\ currentTime + d <= MaxTime
        /\ Step([Cur EXCEPT !.currentTime = @ + d])
ClockInterrupt ==
    \E s \in {"suspended", "interrupted"} :
        /\ _audioCtx /\ state = "running"
        /\ Step(ctxInterrupt(Cur, s))
ClockRunning ==
    /\ _audioCtx /\ state \in {"suspended", "interrupted"}
    /\ Step(ctxRunning(Cur))
\* The host settles a wake lock request, or releases the lock it granted.
WakeLockGranted ==
    /\ wakeRequests > 0
    /\ Step(wakeLockGranted(Cur))
WakeLockRejected ==
    /\ wakeRequests > 0
    /\ Step(wakeLockRejected(Cur))
WakeLockReleased ==
    /\ wakeLock
    /\ Step(wakeLockReleased(Cur))

\* The host runs the next pending timeout, its delay having passed on the clock.
TimeoutFires ==
    /\ pending # <<>>
    /\ pending[nextTimeout(World)].due <= currentTime
    /\ Step(onBeatTimeout(Cur, nextTimeout(World)))

\* The setters called with arguments of any kind.
SetTempoAny ==
    \E v \in TempoRange :
        /\ Step(setBpm(Cur, v))
SetMeterAny ==
    \E v \in MeterRange :
        /\ Step(setBeatsPerMeasure(Cur, v))
SetSubdivisionAny ==
    \E v \in SubdivisionRange :
        /\ Step(setSubdivision(Cur, v))
SetVolumeAny ==
    \E v \in VolumeRange :
        /\ Step(setVolume(Cur, v))

Next ==
    \/ Start
    \/ Stop
    \/ SetTempo
    \/ SetMeter
    \/ SetSubdivision
    \/ SetVolume
    \/ Tick
    \/ VisibilityChange
    \/ ClockAdvance
    \/ ClockInterrupt
    \/ ClockRunning

Spec == Init /\ [][Next]_vars

\* The system in a browser with the Wake Lock API.
MobileNext ==
    \/ Next
    \/ WakeLockGranted
    \/ WakeLockRejected
    \/ WakeLockReleased

MobileSpec == MobileInit /\ [][MobileNext]_vars

\* The engine, the recovery handlers and the beat display.
BeatNext ==
    \/ Start
    \/ Stop
    \/ SetTempo
    \/ Tick
    \/ TimeoutFires
    \/ VisibilityChange
    \/ ClockAdvance
    \/ ClockInterrupt
    \/ ClockRunning

BeatSpec == BeatInit /\ [][BeatNext]_vars

\* The engine under configuration input of any kind, the clock at rest.
SetterNext ==
    \/ Start
    \/ Stop
    \/ SetTempoAny
    \/ SetMeterAny
    \/ SetSubdivisionAny
    \/ SetVolumeAny

SetterSpec == Init /\ [][SetterNext]_vars

\* The engine on a clock that runs without end.  The program reads the clock
\* only to compare it with _nextBeatTime and to anchor _nextBeatTime on it, so
\* the clock time that passes is taken off _nextBeatTime and clock times are
\* measured from the new now; the observations of absolute times are dropped.
\* The polling timer of a Running engine lets the cursor fall at most MaxLate
\* clock steps behind.
MaxLate == 2
elapse(w, d) == dirty([w EXCEPT !._nextBeatTime = @ - d, !.lastTime = None])
ClockElapse ==
    \E d \in ClockSteps :
        /\ _audioCtx /\ state = "running"
        /\ _nextBeatTime - d >= currentTime - MaxLate * Quantum
        /\ Step(elapse(Cur, d))

ProgressNext ==
    \/ Start
    \/ Stop
    \/ SetTempo
    \/ SetMeter
    \/ SetSubdivision
    \/ Tick
    \/ ClockElapse
    \/ ClockInterrupt
    \/ ClockRunning

\* A tick would change the state: ENABLED <<Tick>>_vars.
TickDue == timers # {} /\ _schedule(Cur) # World

\* setInterval keeps calling _schedule while the engine is Running, and a
\* running clock advances: weak fairness of Tick, written with its enabling
\* condition, and of ClockElapse.
ProgressSpec ==
    /\ Init /\ [][ProgressNext]_vars
    /\ ([]<>~TickDue \/ []<><<Tick>>_vars)
    /\ WF_vars(ClockElapse)

----------------------------------------------------------------------------
\* Sanity: the interval of the explored tempi and subdivisions is exact.
IntervalExact ==
    Interval(World) * (_bpm * _subdivision) = 60 * TicksPerSecond

CeilDiv(a, b) == (a + b - 1) \div b

----------------------------------------------------------------------------
\* C1  Recovery non-replay: the engine Running, the clock interrupted and then
\* running again; the first pass that emits after the recovery, whatever clock
\* time g has passed since, emits a first event stamped within
\* [clock-now at recovery, clock-now at recovery + safety margin], and no event
\* stamped before the recovery-time reading.
C1_RecoveryNonReplay ==
    (isRunning(World) /\ interrupted /\ state # "running") =>
        \A g \in 0..Horizon :
            LET rec == ctxRunning(Cur)
                w == _schedule([rec EXCEPT !.currentTime = @ + g * Quantum])
            IN w.out # <<>> =>
                 /\ w.out[1].time >= rec.currentTime
                 /\ w.out[1].time <= rec.currentTime + Margin(rec)
                 /\ \A i \in 1..Len(w.out) : w.out[i].time >= rec.currentTime

\* C2  No burst: a scheduling pass emits at most
\* ceil(lookahead / subdivision-interval) events, and never a backlog of several
\* events all stamped behind the clock's current time.
C2_NoBurst ==
    out # <<>> =>
        /\ Len(out) <= CeilDiv(SCHEDULE_AHEAD_TIME, Interval(World))
        /\ ~(Len(out) >= 2 /\ \A i \in 1..Len(out) : out[i].time < currentTime)

\* C3  Beat-index sequencing: after start(), with no setter call and no re-anchor,
\* the k-th emitted event (k = 0, 1, ...) carries the pair
\* ((k div S) mod M, k mod S), for meter M >= 1 and subdivision S, however the
\* events are split over passes.
C3_BeatIndexSequencing ==
    (clean /\ _beatsPerMeasure >= 1) =>
        \A i \in 1..Len(out) :
            LET k == emitted - Len(out) + i - 1
            IN /\ out[i].beat = (k \div _subdivision) % _beatsPerMeasure
               /\ out[i].subdiv = k % _subdivision

\* A pass of an undisturbed run has emitted past the end of a measure of at least
\* two beats of at least two clicks each.
C3_Witness ==
    /\ clean /\ out # <<>>
    /\ _beatsPerMeasure >= 2 /\ _subdivision >= 2
    /\ emitted > _beatsPerMeasure * _subdivision

\* C4  Timing accuracy: after start() anchored at T0, with no setter call and no
\* re-anchor, the k-th emitted event is stamped T0 + k * (60 / tempo) / subdivision,
\* however many passes there were and whenever they ran.
C4_TimingAccuracy ==
    clean =>
        \A i \in 1..Len(out) :
            LET k == emitted - Len(out) + i - 1
            IN out[i].time * (_bpm * _subdivision)
                   = anchor * (_bpm * _subdivision) + k * 60 * TicksPerSecond

\* At tempo 120, subdivision 1 a later pass has emitted the second beat, half a
\* second after the first.
C4_Witness ==
    /\ clean /\ _bpm = 120 /\ _subdivision = 1
    /\ emitted = 2 /\ Len(out) = 1
    /\ 2 * (out[1].time - anchor) = TicksPerSecond

\* C5  Idempotence: from any state start(); start() leaves the state start() leaves
\* (cursor, Run State, emitted events, polling timers), and stop(); stop() the
\* state stop() leaves.
C5_StartStopIdempotent ==
    /\ \A s0, s1 \in CtxStartStates : start(start(Cur, s0), s1) = start(Cur, s0)
    /\ stop(stop(Cur)) = stop(Cur)

\* The engine runs on its one timer, a start() or a tick having just emitted.
C5_Witness ==
    /\ isRunning(World) /\ timers = {_intervalId}
    /\ out # <<>> /\ currentTime > 0

\* C6  Run State changes only through start() and stop(): every transition that
\* changes it is a start() or a stop().
C6_RunStateOnlyByStartStop ==
    [][ ((_intervalId' = null) # (_intervalId = null)) =>
            \/ \E s0 \in CtxStartStates : Step(start(Cur, s0))
            \/ Step(stop(Cur)) ]_vars

\* The engine is still Running after a setter call and a granted wake lock
\* request, with the page hidden and the clock interrupted.
C6_Witness ==
    /\ isRunning(World) /\ ~clean /\ wakeLock
    /\ visibilityState = "hidden" /\ state = "interrupted"

\* C7 (as stated)  start() from Stopped emits the first event, (0, 0) stamped
\* clock-now + margin, within start() itself.
C7_FirstEventWithinStart ==
    ~isRunning(World) =>
        \A s0 \in CtxStartStates :
            LET w == start(Cur, s0)
            IN /\ w.out # <<>>
               /\ w.out[1].beat = 0 /\ w.out[1].subdiv = 0
               /\ w.out[1].time = w.currentTime + Margin(w)

\* C7 (amended)  start() from Stopped, whatever the cursor was, starts the engine
\* with the cursor at (0, 0) and clock-now + margin, past clock-now; with the
\* margin below the lookahead window its own pass emits the first event, (0, 0)
\* at that timestamp; with a larger margin its pass emits nothing, the cursor is
\* left there, and the first event a later tick emits is (0, 0) at that timestamp.
C7_StartAnchorsAndSchedules ==
    ~isRunning(World) =>
        \A s0 \in CtxStartStates :
            LET w == start(Cur, s0)
                t0 == w.currentTime + Margin(w)
            IN /\ isRunning(w)
               /\ t0 > w.currentTime
               /\ w.anchor = t0
               /\ IF Margin(w) < SCHEDULE_AHEAD_TIME
                  THEN /\ w.out # <<>>
                       /\ w.out[1].beat = 0 /\ w.out[1].subdiv = 0
                       /\ w.out[1].time = t0
                  ELSE /\ w.out = <<>>
                       /\ w._currentBeat = 0 /\ w._currentSubdiv = 0
                       /\ w._nextBeatTime = t0
                       /\ \A g \in 1..Horizon :
                            LET t == _schedule([w EXCEPT !.currentTime = @ + g * Quantum])
                            IN t.out # <<>> =>
                                 /\ t.out[1].beat = 0 /\ t.out[1].subdiv = 0
                                 /\ t.out[1].time = t0

\* A start() over the leftovers of an earlier run (the clock has run) has just
\* emitted its first event.
C7_Witness ==
    /\ isRunning(World) /\ clean /\ currentTime > 0
    /\ out # <<>> /\ emitted = Len(out)
    /\ out[1].time = currentTime + Margin(World)

\* The tempo inputs probed, in tenths, and for each the nearest integer (a half
\* rounding up) clamped to [20, 300].
TempoProbe ==
    {-1000, -5, 0, 5, 194, 195, 200, 204, 205, 1194, 1195, 1200, 1204, 1205,
     2994, 2995, 3000, 3004, 3005, 3015, 100000}
Nearest(t) == CHOOSE r \in -101..10001 : 10 * r - 5 <= t /\ t < 10 * r + 5
Clamp(x, lo, hi) == IF x < lo THEN lo ELSE IF x > hi THEN hi ELSE x
TempoExpected == [t \in TempoProbe |-> Clamp(Nearest(t), 20, 300)]

\* C8  setTempo clamps and rounds: after setTempo(t) the stored tempo is
\* clamp(round(t), 20, 300), and in every state the stored tempo is an integer
\* in [20, 300].
C8_SetTempoClampsRounds ==
    /\ \A t \in TempoProbe : setBpm(Cur, t)._bpm = TempoExpected[t]
    /\ _bpm \in 20..300

\* setTempo(300.5) has stored 300.
C8_Witness == _bpm = 300

\* The subdivision inputs probed, in tenths, and the floor of each.
SubdivisionProbe == {-25, -10, -1, 0, 1, 5, 9, 10, 15, 19, 20, 25, 30, 39, 40, 49}
Floor(n) == CHOOSE f \in -10..10 : 10 * f <= n /\ n < 10 * f + 10
SubdivisionFloor == [n \in SubdivisionProbe |-> Floor(n)]

\* C9 (as stated)  setSubdivision(n) stores 1 for n <= 0 and floor(n) for n > 0,
\* and resets the subdivision index to 0.
C9_FloorAboveZero ==
    \A n \in SubdivisionProbe :
        LET w == setSubdivision(Cur, n)
        IN /\ n <= 0 => w._subdivision = 1
           /\ n > 0 => w._subdivision = SubdivisionFloor[n]
           /\ w._currentSubdiv = 0

\* C9 (amended)  setSubdivision(n) stores 1 for n < 1 and floor(n) for n >= 1,
\* and resets the subdivision index to 0.
C9_FloorAtLeastOne ==
    \A n \in SubdivisionProbe :
        LET w == setSubdivision(Cur, n)
        IN /\ n < 10 => w._subdivision = 1
           /\ n >= 10 => w._subdivision = SubdivisionFloor[n]
           /\ w._currentSubdiv = 0

\* setSubdivision(4.9) has stored 4 while the engine runs past the first click of
\* a beat.
C9_Witness == _subdivision = 4 /\ isRunning(World) /\ _currentSubdiv > 0

\* C10  Every mutator validates: the stored meter is a positive integer, the
\* stored subdivision an integer >= 1, the stored tempo in [20, 300] and the
\* stored volume in [0, 1].
C10_ParametersValid ==
    /\ _beatsPerMeasure \in Nat \ {0}
    /\ _subdivision \in Nat \ {0}
    /\ _bpm \in 20..300
    /\ _volume \in 0..VolumeScale


----------------------------------------------------------------------------
\* The meters probed.
MeterProbe == {-3, 0, 1, 2, 3, 4, 6}

\* C11  setMeter frame condition: in every state, Running or Stopped, setMeter(m)
\* sets the beat index to 0, emits nothing, and leaves the next-event timestamp,
\* the subdivision index, the tempo, the subdivision, the volume and the Run State
\* as they were.
C11_SetMeterFrame ==
    \A m \in MeterProbe :
        LET w == setBeatsPerMeasure(Cur, m)
        IN /\ w._currentBeat = 0
           /\ w._nextBeatTime = _nextBeatTime
           /\ w._currentSubdiv = _currentSubdiv
           /\ w._bpm = _bpm
           /\ w._subdivision = _subdivision
           /\ w._volume = _volume
           /\ w._intervalId = _intervalId
           /\ w.timers = timers
           /\ w.out = <<>>

\* setMeter(2) was called while the engine runs in the middle of a beat: the beat
\* index is 0, the subdivision index is not.
C11_Witness ==
    /\ isRunning(World) /\ ~clean /\ _beatsPerMeasure = 2
    /\ _currentBeat = 0 /\ _currentSubdiv > 0
    /\ _nextBeatTime > currentTime


----------------------------------------------------------------------------
----------------------------------------------------------------------------
\* The pitch class of the event e as stated: accent exactly at beat 0,
\* subdivision 0; ordinary beat exactly at beat > 0, subdivision 0; subdivision
\* exactly at subdivision > 0.
PitchPlaced(e) ==
    /\ (e.freq = FREQ_ACCENT) <=> (e.beat = 0 /\ e.subdiv = 0)
    /\ (e.freq = FREQ_NORMAL) <=> (e.beat > 0 /\ e.subdiv = 0)
    /\ (e.freq = FREQ_SUBDIV) <=> (e.subdiv > 0)
    /\ FREQ_ACCENT > FREQ_NORMAL /\ FREQ_NORMAL > FREQ_SUBDIV

\* The pitch class of the event e: ordinary beat exactly at a beat index other
\* than 0 (NaN included), subdivision 0.
PitchPlacedOffZero(e) ==
    /\ (e.freq = FREQ_ACCENT) <=> (e.beat = 0 /\ e.subdiv = 0)
    /\ (e.freq = FREQ_NORMAL) <=> (e.beat # 0 /\ e.subdiv = 0)
    /\ (e.freq = FREQ_SUBDIV) <=> (e.subdiv > 0)
    /\ FREQ_ACCENT > FREQ_NORMAL /\ FREQ_NORMAL > FREQ_SUBDIV

\* The configured volume, times 0.45 for a subdivision click.
Amplitude(e, volume) ==
    IF e.subdiv = 0 THEN volume ELSE (volume * 45) \div 100

\* The volumes probed, in units of 1 / VolumeScale.
VolumeProbe == {-5000, 0, 5000, 8000, VolumeScale, 15000}

\* The passes probed: the one the latest transition ran and, in a Running state,
\* the next one after setVolume(v), for every probed v.
PassesProbed ==
    {World} \cup (IF isRunning(World)
                  THEN {_schedule(setVolume(Cur, v)) : v \in VolumeProbe}
                  ELSE {})

\* C13 (as stated)  Accent placement: every emitted event has the pitch class of
\* its (beat, subdivision) pair, and its amplitude is the configured volume at
\* subdivision 0 and volume x 0.45 at subdivision > 0.
C13_AmplitudeIsVolume ==
    \A w \in PassesProbed :
        \A i \in 1..Len(w.out) :
            /\ PitchPlaced(w.out[i])
            /\ w.out[i].vol = Amplitude(w.out[i], w._volume)

\* C13 (amended)  Accent placement: every emitted event has the pitch class of
\* its (beat, subdivision) pair, the ordinary beat pitch at every beat index
\* other than 0, and its amplitude is the configured volume at subdivision 0 and
\* volume x 0.45 at subdivision > 0, but never less than 0.0001.
C13_AmplitudeFloored ==
    \A w \in PassesProbed :
        \A i \in 1..Len(w.out) :
            /\ PitchPlacedOffZero(w.out[i])
            /\ w.out[i].vol = Max(Amplitude(w.out[i], w._volume), MinGain)

\* One pass has emitted an accent, an ordinary beat and a subdivision click.
C13_Witness ==
    /\ _beatsPerMeasure >= 1
    /\ \E i, j, k \in 1..Len(out) :
          /\ out[i].freq = FREQ_ACCENT /\ out[i].vol = _volume
          /\ out[j].freq = FREQ_NORMAL /\ out[j].vol = _volume
          /\ out[k].freq = FREQ_SUBDIV /\ out[k].vol = (_volume * 45) \div 100


----------------------------------------------------------------------------
\* C14  Lifecycle hooks: a start() from Stopped leaves the state that onStart,
\* invoked once after the anchoring, the first pass and the timer, leaves; a
\* stop() from Running leaves the state that onStop, invoked once after the timer
\* is cleared, leaves; a start() while Running and a stop() while Stopped invoke
\* no hook and change nothing.
C14_LifecycleHooks ==
    /\ \A s0 \in CtxStartStates :
          start(Cur, s0) = IF isRunning(World) THEN Cur
                           ELSE onStart(startBody(Cur, s0))
    /\ stop(Cur) = IF ~isRunning(World) THEN Cur
                   ELSE onStop([Cur EXCEPT !.timers = @ \ {_intervalId},
                                          !._intervalId = null])


----------------------------------------------------------------------------
\* C15  Sleep lock held only while Running: once the engine is Stopped and every
\* wake lock request has been settled, initMobile holds no wake lock.
C15_SleepLockOnlyWhileRunning ==
    (~isRunning(World) /\ wakeRequests = 0) => ~wakeLock


----------------------------------------------------------------------------
\* C16  Sleep lock re-acquisition: the page becoming visible while the engine is
\* Running issues one more wake lock request, when the browser has the Wake Lock
\* API; becoming visible while Stopped, or becoming hidden, issues none; and each
\* pending request, once the host grants it, leaves a wake lock held.
C16_SleepLockReacquired ==
    /\ LET w == visibilitychange(Cur, "visible")
       IN w.wakeRequests = IF isRunning(World) /\ wakeLockInNavigator
                           THEN wakeRequests + 1 ELSE wakeRequests
    /\ visibilitychange(Cur, "hidden").wakeRequests = wakeRequests
    /\ wakeRequests > 0 => wakeLockGranted(Cur).wakeLock

\* The page has become visible again with the engine Running, the lock held
\* before having been released: a request is pending.
C16_Witness ==
    /\ isRunning(World) /\ visibilityState = "visible"
    /\ ~wakeLock /\ wakeRequests = 1


----------------------------------------------------------------------------
\* C17  Session keep-alive follows Run State: the silent looping audio element
\* has been asked to play exactly while the engine is Running, and is paused
\* while it is Stopped.
C17_KeepAliveFollowsRunState ==
    (silentAudio = "playing") <=> isRunning(World)

----------------------------------------------------------------------------
\* C18  Lifecycle recovery: when the audio clock returns to 'running' while the
\* engine is Running, the 'statechange' listener sets _nextBeatTime to
\* ctx.currentTime + margin; while the engine is Stopped it leaves the cursor as
\* it was.
C18_LifecycleRecovery ==
    (_audioCtx /\ state \in {"suspended", "interrupted"}) =>
        ctxRunning(Cur)._nextBeatTime =
            IF isRunning(World) THEN currentTime + Margin(World)
            ELSE _nextBeatTime

----------------------------------------------------------------------------
\* C19  Visibility recovery: the page becoming visible while the engine is
\* Running requests a resume exactly when the audio clock is 'suspended' or
\* 'interrupted' and in every case sets _nextBeatTime to ctx.currentTime +
\* margin; becoming visible while Stopped, or becoming hidden, requests no
\* resume and leaves the cursor as it was.
C19_VisibilityRecovery ==
    /\ LET w == visibilitychange(Cur, "visible")
       IN IF isRunning(World)
          THEN /\ w.resumeCalled <=> state \in {"suspended", "interrupted"}
               /\ w._nextBeatTime = currentTime + Margin(World)
          ELSE /\ ~w.resumeCalled
               /\ w._nextBeatTime = _nextBeatTime
    /\ LET w == visibilitychange(Cur, "hidden")
       IN /\ ~w.resumeCalled
          /\ w._nextBeatTime = _nextBeatTime

\* The page has just become visible with the engine Running and the clock
\* interrupted: a resume was requested and the cursor re-anchored.
C19_Witness ==
    /\ isRunning(World) /\ visibilityState = "visible"
    /\ state = "interrupted" /\ resumeCalled
    /\ currentTime > 0
    /\ _nextBeatTime = currentTime + Margin(World)


----------------------------------------------------------------------------
\* C20  Non-running clock at scheduling time: a scheduling pass attempted while
\* the audio clock is 'suspended' or 'interrupted', the pass inside start()
\* included, requests a resume and schedules no click; start() requests the
\* resume for an 'interrupted' clock as it does for a 'suspended' one.
C20_NonRunningClockDeferred ==
    /\ (isRunning(World) /\ state \in {"suspended", "interrupted"}) =>
           LET w == _schedule(Cur)
           IN w.resumeCalled /\ w.out = <<>>
    /\ ~isRunning(World) =>
           \A s0 \in CtxStartStates :
               LET w == start(Cur, s0)
               IN w.state \in {"suspended", "interrupted"} =>
                      w.resumeCalled /\ w.out = <<>>


----------------------------------------------------------------------------
\* The cursor of the world w, and the cursor an event was emitted at.
Cursor(w) ==
    [beat |-> w._currentBeat, subdiv |-> w._currentSubdiv, time |-> w._nextBeatTime]
CursorOf(e) == [beat |-> e.beat, subdiv |-> e.subdiv, time |-> e.time]
\* The world w with its cursor at the event e.
AtCursor(w, e) ==
    [w EXCEPT !._currentBeat = e.beat, !._currentSubdiv = e.subdiv,
              !._nextBeatTime = e.time]

\* C21  Ordering and uniqueness of events: the events of one scheduling pass
\* carry strictly increasing timestamps; in a run with no re-anchor since its
\* start(), whatever setters were called, every event emitted so far is stamped
\* before the next-event timestamp, at which the next pass emits its first event,
\* so timestamps increase strictly across passes; and a pass emits each cursor
\* position it passes through once: the first event at the cursor the pass found,
\* each further event at the cursor one advance after the event before it, and
\* the cursor left one advance after the last event.
C21_OrderingAndUniqueness ==
    /\ \A i \in 1..(Len(out) - 1) : out[i].time < out[i + 1].time
    /\ (isRunning(World) /\ lastTime # None) => lastTime < _nextBeatTime
    /\ isRunning(World) =>
           LET w == _schedule(Cur)
               n == Len(w.out)
           IN IF n = 0 THEN Cursor(w) = Cursor(World)
              ELSE /\ CursorOf(w.out[1]) = Cursor(World)
                   /\ \A i \in 1..(n - 1) :
                          CursorOf(w.out[i + 1])
                              = Cursor(_advanceBeat(AtCursor(Cur, w.out[i])))
                   /\ Cursor(w) = Cursor(_advanceBeat(AtCursor(Cur, w.out[n])))

\* In a run in which the tempo and the subdivision were set after earlier events,
\* a later pass has emitted several events.
C21_Witness ==
    /\ isRunning(World) /\ ~clean /\ _bpm = 300 /\ _subdivision = 4
    /\ Len(out) >= 2 /\ lastTime = out[Len(out)].time
    /\ out[1].time > anchor /\ currentTime > 0


----------------------------------------------------------------------------
\* C22  stop() cancels only the polling: while the engine is Stopped no polling
\* timer is left, so no pass runs, and no transition (timer tick, clock
\* lifecycle, visibility, setter) emits an event; stop() itself leaves the
\* cursor, the musical parameters, the audio clock and the clicks already
\* scheduled as they were.
C22_StopCancelsOnlyPolling ==
    /\ ~isRunning(World) => (timers = {} /\ out = <<>>)
    /\ isRunning(World) =>
           LET w == stop(World)
           IN /\ ~isRunning(w) /\ w.timers = {}
              /\ Cursor(w) = Cursor(World)
              /\ w._bpm = _bpm /\ w._beatsPerMeasure = _beatsPerMeasure
              /\ w._subdivision = _subdivision /\ w._volume = _volume
              /\ w._audioCtx = _audioCtx /\ w.state = state
              /\ w.currentTime = currentTime
              /\ w.out = out

\* The engine was stopped in the middle of a measure; since then the clock has
\* run past the cursor, was interrupted, and the page was hidden.
C22_Witness ==
    /\ ~isRunning(World) /\ _audioCtx /\ _currentBeat > 0
    /\ _nextBeatTime < currentTime
    /\ state = "interrupted" /\ visibilityState = "hidden"


----------------------------------------------------------------------------
\* The clock time that may pass between two passes when polling keeps up: none,
\* one clock step, and the longest time below the lookahead window.
PollGaps == {0, Quantum, SCHEDULE_AHEAD_TIME - 1}
Later(w, d) == [w EXCEPT !.currentTime = @ + d]
\* What may happen to the running engine w between two passes: nothing, a setter
\* call, the page hidden and visible again, the clock interrupted and running again.
Between(w) ==
    {w} \cup {setBpm(w, v) : v \in TempoInputs}
        \cup {setBeatsPerMeasure(w, v) : v \in MeterInputs}
        \cup {setSubdivision(w, v) : v \in SubdivisionInputs}
        \cup {visibilitychange(visibilitychange(w, "hidden"), "visible")}
        \cup {ctxRunning(ctxInterrupt(w, "interrupted"))}

\* C23  No event is scheduled in the past when polling keeps up: in a run whose
\* second pass follows the pass inside start() by less than the lookahead window
\* (0.1 s of clock time), whatever setter was called or re-anchor made in
\* between at whatever time, every event of both passes is stamped past the
\* clock's current time at its emission.
C23_NoEventInThePast ==
    ~isRunning(World) =>
        \A s0 \in CtxStartStates :
            LET w0 == start(Cur, s0)
            IN /\ \A i \in 1..Len(w0.out) : w0.out[i].time > w0.currentTime
               /\ \A d \in PollGaps : \A d1 \in {0, d} :
                      \A b \in Between(Later(w0, d1)) :
                          LET w == _schedule([Later(b, d - d1) EXCEPT !.out = <<>>])
                          IN \A i \in 1..Len(w.out) :
                                 w.out[i].time > w.currentTime


----------------------------------------------------------------------------
\* The engine and its clock stay Running from some point on.
StaysRunning == <>[](isRunning(World) /\ state = "running")
\* The positions a measure can have under the explored meters and subdivisions.
Positions == (0..3) \X (0..3)
InMeasure(p) == p[1] < _beatsPerMeasure /\ p[2] < _subdivision
Emits(p) == \E i \in 1..Len(out) : out[i].beat = p[1] /\ out[i].subdiv = p[2]
\* A pass leaves the next-event timestamp at or beyond clock-now + lookahead.
PassCompletes ==
    isRunning(World) =>
        _schedule(Cur)._nextBeatTime >= currentTime + SCHEDULE_AHEAD_TIME

----------------------------------------------------------------------------
\* The tempi probed, in tenths: below the range, inside it, a half above it.
\* Their intervals are whole numbers of ticks at every subdivision.
TempoChanges == {-1000, 1500, 3005}
TempoStored == [t \in TempoChanges |-> Clamp(Nearest(t), 20, 300)]
\* The clock time after which a pass emits the event at the cursor of w: the
\* least such time, and one clock step more.
PassDelays(w) ==
    LET least == Max(0, w._nextBeatTime - w.currentTime - SCHEDULE_AHEAD_TIME + 1)
    IN {least, least + Quantum}

\* C25  Tempo change takes effect without touching the cursor: setTempo(t) leaves
\* the beat index, the subdivision index, the next-event timestamp and the Run
\* State as they were and emits nothing; the next pass that emits, early or late,
\* emits its first event at that cursor and timestamp, and the advance after it
\* is by (60 / new tempo) / subdivision, the new tempo being
\* clamp(round(t), 20, 300).
C25_TempoChangeKeepsCursor ==
    \A t \in TempoChanges :
        LET w == setBpm(Cur, t)
            tempo == TempoStored[t]
        IN /\ Cursor(w) = Cursor(World)
           /\ w._intervalId = _intervalId /\ w.timers = timers
           /\ w.out = <<>>
           /\ isRunning(World) =>
                  \A d \in PassDelays(World) :
                      LET p == _schedule(Later(w, d))
                          next == IF Len(p.out) >= 2 THEN p.out[2].time
                                  ELSE p._nextBeatTime
                      IN /\ p.out # <<>>
                         /\ CursorOf(p.out[1]) = Cursor(World)
                         /\ (next - _nextBeatTime) * (tempo * _subdivision)
                                = 60 * TicksPerSecond

\* The tempo was set to 300 while the engine runs in the middle of a measure:
\* the cursor is where the advance at tempo 120 left it.
C25_Witness ==
    /\ isRunning(World) /\ _bpm = 300 /\ out = <<>>
    /\ _currentBeat > 0 /\ _nextBeatTime > currentTime
    /\ lastTime # None
    /\ (_nextBeatTime - lastTime) * (120 * _subdivision) = 60 * TicksPerSecond


----------------------------------------------------------------------------
\* What a re-anchor is to leave alone: the indices, the musical parameters and
\* the Run State.
SameButTimestamp(w1, w2) ==
    /\ w1._currentBeat = w2._currentBeat /\ w1._currentSubdiv = w2._currentSubdiv
    /\ w1._bpm = w2._bpm /\ w1._beatsPerMeasure = w2._beatsPerMeasure
    /\ w1._subdivision = w2._subdivision /\ w1._volume = w2._volume
    /\ w1._intervalId = w2._intervalId /\ w1.timers = w2.timers

\* C26  Re-anchor rewrites only the timestamp: the 'visibilitychange' listener
\* and the 'statechange' listener (taken as added to the clock) leave the beat
\* index, the subdivision index, the tempo, the meter, the subdivision, the
\* volume and the Run State as they were; and when the clock of the Running
\* engine is interrupted, a timer tick comes during the interruption, the page
\* is hidden and visible again and the clock runs again, the first event emitted
\* after that carries the (beat, subdivision) pair the cursor held before the
\* interruption.
C26_ReanchorRewritesTimestampOnly ==
    /\ SameButTimestamp(visibilitychange(Cur, "visible"), World)
    /\ SameButTimestamp(statechange([Cur EXCEPT !._mobileHooked = TRUE,
                                                !.state = "running"]), World)
    /\ (isRunning(World) /\ state = "running") =>
           \A s \in {"suspended", "interrupted"} :
               LET w1 == _schedule(ctxInterrupt(Cur, s))
                   w2 == visibilitychange(visibilitychange(w1, "hidden"), "visible")
                   w3 == _schedule([Later(ctxRunning(w2), Quantum) EXCEPT !.out = <<>>])
               IN /\ w3.out # <<>>
                  /\ w3.out[1].beat = _currentBeat
                  /\ w3.out[1].subdiv = _currentSubdiv


----------------------------------------------------------------------------
\* The indices of the cursor of w are in range; the beat index for a meter >= 1.
InRange(w) ==
    /\ w._currentSubdiv \in 0..(w._subdivision - 1)
    /\ w._beatsPerMeasure >= 1 => w._currentBeat \in 0..(w._beatsPerMeasure - 1)

\* C27  Cursor indices stay in range: in every state 0 <= subdivision index <
\* subdivision and, the meter being >= 1, 0 <= beat index < meter; setMeter(m)
\* for m >= 1 and setSubdivision(n) for any n, called in any state, leave the
\* indices in the new range.
C27_CursorInRange ==
    /\ InRange(World)
    /\ \A m \in MeterProbe : InRange(setBeatsPerMeasure(Cur, m))
    /\ \A n \in SubdivisionProbe : InRange(setSubdivision(Cur, n))

\* The meter was set while the engine runs, and passes have since taken the
\* cursor to the last position of the measure of two beats of four clicks.
C27_Witness ==
    /\ isRunning(World) /\ ~clean /\ out # <<>>
    /\ _beatsPerMeasure = 2 /\ _subdivision = 4
    /\ _currentBeat = 1 /\ _currentSubdiv = 3


----------------------------------------------------------------------------
\* C28  Single polling timer: in every state at most one polling timer is
\* active, one is active exactly when the engine is Running, and it is the one
\* _intervalId names.
C28_SinglePollingTimer ==
    /\ Cardinality(timers) <= 1
    /\ timers # {} <=> isRunning(World)
    /\ isRunning(World) => timers = {_intervalId}

\* The engine runs on its one timer after the page has become visible and the
\* handler has asked the suspended clock to resume.
C28_Witness ==
    /\ isRunning(World) /\ Cardinality(timers) = 1
    /\ visibilityState = "visible" /\ state = "suspended" /\ resumeCalled
    /\ currentTime > 0 /\ ~clean


----------------------------------------------------------------------------
\* C29  No beat notification after stop: while the engine is Stopped no
\* transition invokes the onBeat callback.
C29_NoBeatAfterStop ==
    ~isRunning(World) => notified = <<>>

----------------------------------------------------------------------------
\* C30  Beat notifications arrive in emission order: no onBeat callback is
\* invoked for an event while the callback of an event emitted earlier in the
\* same run is still to come, a re-anchor between the two emissions or not.
C30_BeatsInEmissionOrder ==
    \A i \in 1..Len(notified) : ~notified[i].overtook

====
